---- MODULE Spec2Model ----
(***************************************************************************)
(* diffsoup: the job pipeline (controller, worker, UI thread), the         *)
(* pagination of the commit directory, the view state machine and the      *)
(* commit reconciliation of calculate_branch_diff.                         *)
(*                                                                         *)
(* Encodings.  Option<T> is a sequence of length 0 (None) or 1 (Some).     *)
(* A commit identifier of the directory is a pair <<page, position>>.      *)
(* A diff text is represented by its number of lines.                      *)
(***************************************************************************)
EXTENDS Integers, Sequences, FiniteSets, TLC

\* ------------------------------------------------------------------ bounds
\* number of job ids the controller may hand out in one run
MaxJobs == 5
\* number of key presses / resizes the user performs in one run
MaxUiEvents == 2
\* largest number of pages the remote history consists of
NumPages == 2
\* largest number of identifiers in one page
MaxPageLen == 2
\* number of consecutive ids handed out when JobId::next is examined on its own
MaxDispatches == 3
\* number of scroll events applied when the DiffView arm is examined on its own
MaxScrolls == 2
\* largest number of commits on one side of a reconciliation
MaxSeqLen == 3
\* largest changed_files of a row handed to has_changes
MaxChangedFiles == 2

\* ----------------------------------------------------------------- options
None == <<>>
Some(x) == <<x>>
IsSome(o) == Len(o) = 1
Unwrap(o) == o[1]
unwrap_or_default(o) == IF IsSome(o) THEN o[1] ELSE 0

Min(a, b) == IF a <= b THEN a ELSE b
saturating_sub(a, b) == IF a >= b THEN a - b ELSE 0

\* Vec::get
Get(v, i) == IF i >= 0 /\ i < Len(v) THEN Some(v[i + 1]) ELSE None

Last(s) == s[Len(s)]

PageDirection == {"Forward", "Backward"}

\* ------------------------------------------------------------ JobId
\* JobId::next: wrapping_add(1) on a u64; ids stay below MaxJobs, far from
\* the wrap at 2^64
JobIdNext(n) == n + 1

\* JobId(u64) at its full width: four 16-bit limbs, least significant first
U64Limbs == 4
LimbBase == 65536
U64Zero == [i \in 1..U64Limbs |-> 0]
U64Max == [i \in 1..U64Limbs |-> LimbBase - 1]

\* u64::wrapping_add(1) on limbs: the carry out of the last limb is dropped
RECURSIVE wrapping_add_one(_)
wrapping_add_one(n) ==
  IF n = <<>> THEN <<>>
  ELSE IF Head(n) + 1 < LimbBase THEN <<Head(n) + 1>> \o Tail(n)
  ELSE <<0>> \o wrapping_add_one(Tail(n))

\* a JobId::next that saturates: u64::saturating_add(1) on limbs
RECURSIVE JobIdNextSaturating(_)
JobIdNextSaturating(n) ==
  IF \A i \in 1..Len(n) : n[i] = LimbBase - 1 THEN n
  ELSE IF Head(n) + 1 < LimbBase THEN <<Head(n) + 1>> \o Tail(n)
  ELSE <<0>> \o JobIdNextSaturating(Tail(n))

\* JobId::next on the full-width id
JobIdNextU64(n) == wrapping_add_one(n)

\* a next_job that hands out the current id again
next_job_stuck(current_job) == IF IsSome(current_job) THEN Unwrap(current_job) ELSE 0

\* AppState::next_job
next_job(current_job) == IF IsSome(current_job) THEN JobIdNext(Unwrap(current_job)) ELSE 0

\* ------------------------------------------------------- reconciliation
\* HashMap::insert
MapInsert(m, k, v) == [x \in (DOMAIN m) \cup {k} |-> IF x = k THEN v ELSE m[x]]
\* HashMap::get
MapGet(m, k) == IF k \in DOMAIN m THEN Some(m[k]) ELSE None
EmptyMap == [x \in {} |-> 0]

\* from_sources[from_idx..].contains(to_source); indices are 0-based
SliceContains(srcs, idx, s) == \E k \in (idx + 1)..Len(srcs) : srcs[k] = s

\* an alignment without the lookahead into from[i..]
StepKindNoLookahead(from, to, i, j) ==
  IF i < Len(from) /\ j < Len(to)
  THEN IF from[i + 1].src = to[j + 1].src THEN "match" ELSE "to"
  ELSE IF i < Len(from) THEN "from" ELSE "to"

\* the arm one iteration of the alignment loop takes at pointers i, j
\* (0-based); commits are [sha, src]
StepKind(from, to, i, j) ==
  IF i < Len(from) /\ j < Len(to)
  THEN IF from[i + 1].src = to[j + 1].src THEN "match"
       ELSE IF SliceContains([k \in 1..Len(from) |-> from[k].src], i, to[j + 1].src)
       THEN "from"
       ELSE "to"
  ELSE IF i < Len(from) THEN "from" ELSE "to"

\* an iteration whose to-only arm pushes the source without storing the commit
AlignStepDropsInsert(from, to, st) ==
  LET kind == StepKind(from, to, st.i, st.j)
      fc == from[st.i + 1]
      tc == to[st.j + 1]
  IN CASE kind = "match" ->
            [i |-> st.i + 1, j |-> st.j + 1,
             from_map |-> MapInsert(st.from_map, fc.src, fc),
             to_map |-> MapInsert(st.to_map, tc.src, tc),
             change_ids |-> Append(st.change_ids, fc.src)]
       [] kind = "from" ->
            [i |-> st.i + 1, j |-> st.j,
             from_map |-> MapInsert(st.from_map, fc.src, fc),
             to_map |-> st.to_map,
             change_ids |-> Append(st.change_ids, fc.src)]
       [] kind = "to" ->
            [i |-> st.i, j |-> st.j + 1,
             from_map |-> st.from_map,
             to_map |-> st.to_map,
             change_ids |-> Append(st.change_ids, tc.src)]

\* an iteration whose match arm advances only the from pointer
AlignStepMatchAdvancesOne(from, to, st) ==
  LET kind == StepKind(from, to, st.i, st.j)
      fc == from[st.i + 1]
      tc == to[st.j + 1]
  IN CASE kind = "match" ->
            [i |-> st.i + 1, j |-> st.j,
             from_map |-> MapInsert(st.from_map, fc.src, fc),
             to_map |-> MapInsert(st.to_map, tc.src, tc),
             change_ids |-> Append(st.change_ids, fc.src)]
       [] kind = "from" ->
            [i |-> st.i + 1, j |-> st.j,
             from_map |-> MapInsert(st.from_map, fc.src, fc),
             to_map |-> st.to_map,
             change_ids |-> Append(st.change_ids, fc.src)]
       [] kind = "to" ->
            [i |-> st.i, j |-> st.j + 1,
             from_map |-> st.from_map,
             to_map |-> MapInsert(st.to_map, tc.src, tc),
             change_ids |-> Append(st.change_ids, tc.src)]

\* one iteration of the alignment loop of calculate_branch_diff on the loop
\* state st = [i, j, from_map, to_map, change_ids]
AlignStep(from, to, st) ==
  LET kind == StepKind(from, to, st.i, st.j)
      fc == from[st.i + 1]
      tc == to[st.j + 1]
  IN CASE kind = "match" ->
            [i |-> st.i + 1, j |-> st.j + 1,
             from_map |-> MapInsert(st.from_map, fc.src, fc),
             to_map |-> MapInsert(st.to_map, tc.src, tc),
             change_ids |-> Append(st.change_ids, fc.src)]
       [] kind = "from" ->
            [i |-> st.i + 1, j |-> st.j,
             from_map |-> MapInsert(st.from_map, fc.src, fc),
             to_map |-> st.to_map,
             change_ids |-> Append(st.change_ids, fc.src)]
       [] kind = "to" ->
            [i |-> st.i, j |-> st.j + 1,
             from_map |-> st.from_map,
             to_map |-> MapInsert(st.to_map, tc.src, tc),
             change_ids |-> Append(st.change_ids, tc.src)]

\* the alignment loop of calculate_branch_diff
RECURSIVE AlignLoop(_, _, _, _, _, _, _)
AlignLoop(from, to, i, j, fm, tm, ids) ==
  IF ~(i < Len(from) \/ j < Len(to)) THEN [from_map |-> fm, to_map |-> tm, change_ids |-> ids]
  ELSE LET s == AlignStep(from, to, [i |-> i, j |-> j, from_map |-> fm,
                                     to_map |-> tm, change_ids |-> ids])
       IN AlignLoop(from, to, s.i, s.j, s.from_map, s.to_map, s.change_ids)

\* one CommitDiff row for a change id; cstat/dstat are the changed_files the
\* external calculate_commit_stats / calculate_diff_stats report
MakeCommitDiff(fc, tc, cstat, dstat) ==
  [from |-> IF IsSome(fc) THEN Some(Unwrap(fc).sha) ELSE None,
   to |-> IF IsSome(tc) THEN Some(Unwrap(tc).sha) ELSE None,
   changed_files |->
     IF IsSome(fc) /\ IsSome(tc)
     THEN IF Unwrap(fc).sha = Unwrap(tc).sha THEN cstat ELSE dstat
     ELSE IF IsSome(fc) \/ IsSome(tc) THEN cstat ELSE 0]

\* the rows built from the maps, one per pushed change id
BuildRows(a, cstat, dstat) ==
  [k \in 1..Len(a.change_ids) |->
     MakeCommitDiff(MapGet(a.from_map, a.change_ids[k]),
                    MapGet(a.to_map, a.change_ids[k]), cstat, dstat)]

\* calculate_branch_diff after the commits of both sides are resolved
calculate_branch_diff(from, to, cstat, dstat) ==
  BuildRows(AlignLoop(from, to, 0, 0, EmptyMap, EmptyMap, <<>>), cstat, dstat)

\* a has_changes that looks at the stats only when both sides are present
has_changes_ignoring_sha(c) ==
  IF IsSome(c.from) /\ IsSome(c.to)
  THEN c.changed_files > 0
  ELSE IsSome(c.from) \/ IsSome(c.to)

\* a has_changes that treats a removed commit as unchanged
has_changes_added_only(c) ==
  IF IsSome(c.from) /\ IsSome(c.to)
  THEN c.changed_files > 0 /\ Unwrap(c.from) # Unwrap(c.to)
  ELSE IsSome(c.to) /\ ~IsSome(c.from)

\* CommitDiff::has_changes
has_changes(c) ==
  IF IsSome(c.from) /\ IsSome(c.to)
  THEN c.changed_files > 0 /\ Unwrap(c.from) # Unwrap(c.to)
  ELSE IsSome(c.from) \/ IsSome(c.to)

\* ListView::get_visible_commits
get_visible_commits(lv) ==
  IF lv.show_unchanged THEN lv.commits ELSE SelectSeq(lv.commits, has_changes)

\* ------------------------------------------------- external collaborators
\* terminal sizes (width, height) the terminal reports
TermSizes == {<<4, 2>>}
\* line counts of the diffs render_interdiff produces
DiffLineCounts == {3}

cA == [sha |-> 1, src |-> 1]
cB == [sha |-> 2, src |-> 2]
cB2 == [sha |-> 3, src |-> 2]
cC == [sha |-> 4, src |-> 3]
\* what the repository holds for a pair of revisions: the commits of both
\* sides and the changed_files the stats functions report
RepoScenarios ==
  { [from |-> <<>>, to |-> <<>>, cstat |-> 0, dstat |-> 0],
    [from |-> <<cA, cB>>, to |-> <<cA, cB2, cC>>, cstat |-> 1, dstat |-> 1],
    [from |-> <<cB>>, to |-> <<cB2>>, cstat |-> 1, dstat |-> 1] }

\* DiffTree::from and its Display, on resolved commit ids
DiffTreeFrom(fc, tc) ==
  IF IsSome(fc) /\ IsSome(tc)
  THEN IF Unwrap(fc) = Unwrap(tc) THEN Some(<<"AddedCommit", Unwrap(tc)>>)
       ELSE Some(<<"Interdiff", Unwrap(fc), Unwrap(tc)>>)
  ELSE IF IsSome(fc) THEN Some(<<"RemovedCommit", Unwrap(fc)>>)
  ELSE IF IsSome(tc) THEN Some(<<"AddedCommit", Unwrap(tc)>>)
  ELSE None

\* ------------------------------------------------------------------ state
VARIABLES
  screen, screen_size, list_state, show_unchanged, commit_list, next_page,
  base_index, comparison_index, current_job,
  ctrlPc, reqQ, mainQ, viewQ, reqTxOpen,
  workerPc,
  uiPc, uiScreen, uiCount,
  fetcherDir,
  submitted, received, responded, handled, entered,
  rPc, rFrom, rTo, rStats, rAlign, rSteps, rOut,
  hcRow, hcResult,
  rnIn, rnOut,
  jId, jIssued,
  dvView, dvSize, dvEv, dvCount

appVars == <<screen, screen_size, list_state, show_unchanged, commit_list,
             next_page, base_index, comparison_index, current_job>>
workerVars == <<workerPc, received, responded>>
uiVars == <<uiPc, uiScreen, uiCount>>
fetcherVars == <<fetcherDir>>
\* one call of calculate_branch_diff: its inputs, its loop state, the arms it
\* took and its result
reconcileVars == <<rPc, rFrom, rTo, rStats, rAlign, rSteps, rOut>>
\* one call of CommitDiff::has_changes: the row and the result
hasChangesVars == <<hcRow, hcResult>>
\* one call of worker::render_interdiff: the arguments with the outcomes of
\* its external calls, and the response
renderVars == <<rnIn, rnOut>>
\* the calls of the pure functions examined on their own
\* consecutive calls of JobId::next: the current id and the ids handed out
jobIdVars == <<jId, jIssued>>
\* Scroll events applied to a DiffView: the view, the terminal size, the last
\* event and the number of events
scrollVars == <<dvView, dvSize, dvEv, dvCount>>
pureVars == <<reconcileVars, hasChangesVars, renderVars, jobIdVars, scrollVars>>
vars == <<appVars, ctrlPc, reqQ, mainQ, viewQ, reqTxOpen, workerVars, uiVars,
          fetcherVars, submitted, handled, entered, pureVars>>

\* the process ends when run() returns an error or the main thread panics
ProcessAlive == ctrlPc \notin {"aborted", "panicked", "done"}
\* worker_request_rx lives as long as the worker's closure
WorkerRxOpen == workerPc = "idle"

LoadingScreen(msg) == [type |-> "Loading", msg |-> msg]
\* an Error screen that drops the message
ErrorScreenNoMsg(msg) == [type |-> "Error", msg |-> None]
ErrorScreen(msg) == [type |-> "Error", msg |-> msg]
ExitScreen == [type |-> "Exit"]

\* PrFetcher::fetch_history on success: the page a token names, holding n
\* identifiers; last: the remote history ends with this page
FetchPage(pagination, n, last) ==
  LET p == IF IsSome(pagination) THEN Unwrap(pagination).page ELSE 0
  IN [items |-> [i \in 1..n |-> <<p, i>>],
      direction |-> fetcherDir,
      next |-> IF ~last /\ p + 1 < NumPages
               THEN Some([page |-> p + 1, direction |-> fetcherDir])
               ELSE None]

\* AppState::new and the first dispatch of run()
PipelineInit ==
  /\ screen = LoadingScreen(None)
  /\ screen_size = <<0, 0>>
  /\ list_state = None
  /\ show_unchanged = FALSE
  /\ commit_list = <<>>
  /\ next_page = None
  /\ base_index = 0
  /\ comparison_index = 0
  /\ current_job = Some(next_job(None))
  /\ ctrlPc = "loop"
  /\ reqQ = <<[job_id |-> next_job(None), msg |-> [type |-> "LoadCommits", pagination |-> None]]>>
  /\ mainQ = <<>>
  /\ viewQ = <<>>
  /\ reqTxOpen = TRUE
  /\ workerPc = "idle"
  /\ uiPc = "start"
  /\ uiScreen = LoadingScreen(None)
  /\ uiCount = 0
  /\ fetcherDir \in PageDirection
  /\ submitted = <<[job_id |-> next_job(None), type |-> "LoadCommits",
                    msg |-> [type |-> "LoadCommits", pagination |-> None]]>>
  /\ received = <<>>
  /\ responded = <<>>
  /\ handled = {}
  /\ entered = None

\* the loop state of calculate_branch_diff before its first iteration
AlignStart ==
  [i |-> 0, j |-> 0, from_map |-> EmptyMap, to_map |-> EmptyMap, change_ids |-> <<>>]

\* no DiffView scroll is examined
ScrollIdle ==
  /\ dvView = [scroll |-> 0, diff |-> 0]
  /\ dvSize = <<0, 0>>
  /\ dvEv = None
  /\ dvCount = 0

\* no call of JobId::next is examined
JobIdIdle ==
  /\ jId = U64Zero
  /\ jIssued = <<>>

\* no call of render_interdiff is examined
RenderIdle ==
  /\ rnIn = [from |-> None, to |-> None, fromOk |-> TRUE, toOk |-> TRUE,
             renderOk |-> TRUE]
  /\ rnOut = None

\* no pure function is examined on its own
PureIdle ==
  /\ RenderIdle
  /\ JobIdIdle
  /\ ScrollIdle
  /\ rPc = "off"
  /\ rFrom = <<>>
  /\ rTo = <<>>
  /\ rStats = [cstat |-> 0, dstat |-> 0]
  /\ rAlign = AlignStart
  /\ rSteps = <<>>
  /\ rOut = <<>>
  /\ hcRow = [from |-> None, to |-> None, changed_files |-> 0]
  /\ hcResult = None

Init == PipelineInit /\ PureIdle

\* ------------------------------------------------------------ controller
\* a guard that lets every response through
IsCurrentAny(cur, id) == TRUE

\* the guard of run()'s first match arm: the response belongs to current_job
IsCurrent(cur, id) == IsSome(cur) /\ Unwrap(cur) = id

\* a splice that replaces the directory by the page
SpliceReplacing(list, items) == items

\* commit_list.splice(0..0, page.items)
Splice(list, items) == items \o list

\* a List arm that forgets to rebase the indices
RebaseListViewNoShift(lv, np, length, newLen) == [lv EXCEPT !.total_commits = newLen]

\* the List arm of the LoadCommits response: total_commits and the rebase
RebaseListView(lv, np, length, newLen) ==
  IF IsSome(np) /\ Unwrap(np).direction = "Backward"
  THEN [lv EXCEPT !.total_commits = newLen,
                  !.base_index = lv.base_index + length,
                  !.comparison_index = lv.comparison_index + length]
  ELSE [lv EXCEPT !.total_commits = newLen]

\* a has_next that ignores where the window is
has_next_always(next, base, comp, len) == TRUE

\* has_next of the CalculateBranchDiff arm
has_next(next, base, comp, len) ==
  IF next.direction = "Backward" THEN base = 0 ELSE comp >= len - 1

\* the first reconciliation's indices, by page direction
InitialIndices(direction, len) ==
  IF direction = "Backward" THEN <<len - 2, len - 1>> ELSE <<0, 1>>

\* a request that names the two indices in the wrong order
CalcRequestSwapped(list, from, to) ==
  [type |-> "CalculateBranchDiff", from |-> list[from + 1], from_index |-> to,
   to |-> list[to + 1], to_index |-> from]

CalcRequest(list, from, to) ==
  [type |-> "CalculateBranchDiff", from |-> list[from + 1], from_index |-> from,
   to |-> list[to + 1], to_index |-> to]

NoEffect ==
  [screen |-> screen, commit_list |-> commit_list, next_page |-> next_page,
   base_index |-> base_index, comparison_index |-> comparison_index,
   send |-> None, panicked |-> FALSE]

\* a handle_worker whose Error arm asks for the page again
handle_worker_retrying(response) ==
  CASE response.type = "Error" ->
         [NoEffect EXCEPT !.screen = ErrorScreen(Some(response.msg)),
                          !.send = Some([type |-> "LoadCommits", pagination |-> next_page])]
    [] response.type = "Loading" ->
         [NoEffect EXCEPT !.screen = LoadingScreen(Some(response.msg))]
    [] response.type = "LoadCommits" ->
         LET page == response.page
             length == Len(page.items)
             list == Splice(commit_list, page.items)
         IN IF screen.type = "Loading"
            THEN IF Len(list) < 2
                 THEN [NoEffect EXCEPT !.commit_list = list, !.panicked = TRUE]
                 ELSE LET ix == InitialIndices(page.direction, Len(list))
                      IN [NoEffect EXCEPT !.commit_list = list,
                                          !.next_page = page.next,
                                          !.send = Some(CalcRequest(list, ix[1], ix[2]))]
            ELSE IF screen.type = "List"
            THEN [NoEffect EXCEPT !.commit_list = list,
                                  !.next_page = page.next,
                                  !.screen = RebaseListView(screen, next_page, length, Len(list))]
            ELSE [NoEffect EXCEPT !.commit_list = list, !.next_page = page.next]
    [] response.type = "CalculateBranchDiff" ->
         LET from == response.from
             to == response.to
             selected == Min(Len(response.commits), unwrap_or_default(list_state))
             view == [type |-> "List",
                      commits |-> response.commits,
                      list_state |-> Some(selected),
                      show_unchanged |-> show_unchanged,
                      base_name |-> Get(commit_list, from),
                      base_index |-> from,
                      comparison_name |-> Get(commit_list, to),
                      comparison_index |-> to,
                      total_commits |-> Len(commit_list)]
             r == [NoEffect EXCEPT !.base_index = from, !.comparison_index = to,
                                   !.screen = view]
         IN IF ~IsSome(next_page) THEN r
            ELSE IF Unwrap(next_page).direction = "Forward" /\ Len(commit_list) = 0
            THEN [r EXCEPT !.panicked = TRUE]
            ELSE IF has_next(Unwrap(next_page), from, to, Len(commit_list))
            THEN [r EXCEPT !.send = Some([type |-> "LoadCommits", pagination |-> next_page])]
            ELSE r
    [] response.type = "RenderInterdiff" ->
         [NoEffect EXCEPT !.screen = [type |-> "DiffView", commit |-> response.title,
                                      diff |-> response.diff, scroll |-> response.scroll]]

\* AppState::handle_worker: the new field values, the request it sends (if
\* any) and whether an index or subtraction panics
handle_worker(response) ==
  CASE response.type = "Error" ->
         [NoEffect EXCEPT !.screen = ErrorScreen(Some(response.msg))]
    [] response.type = "Loading" ->
         [NoEffect EXCEPT !.screen = LoadingScreen(Some(response.msg))]
    [] response.type = "LoadCommits" ->
         LET page == response.page
             length == Len(page.items)
             list == Splice(commit_list, page.items)
         IN IF screen.type = "Loading"
            THEN IF Len(list) < 2
                 THEN [NoEffect EXCEPT !.commit_list = list, !.panicked = TRUE]
                 ELSE LET ix == InitialIndices(page.direction, Len(list))
                      IN [NoEffect EXCEPT !.commit_list = list,
                                          !.next_page = page.next,
                                          !.send = Some(CalcRequest(list, ix[1], ix[2]))]
            ELSE IF screen.type = "List"
            THEN [NoEffect EXCEPT !.commit_list = list,
                                  !.next_page = page.next,
                                  !.screen = RebaseListView(screen, next_page, length, Len(list))]
            ELSE [NoEffect EXCEPT !.commit_list = list, !.next_page = page.next]
    [] response.type = "CalculateBranchDiff" ->
         LET from == response.from
             to == response.to
             selected == Min(Len(response.commits), unwrap_or_default(list_state))
             view == [type |-> "List",
                      commits |-> response.commits,
                      list_state |-> Some(selected),
                      show_unchanged |-> show_unchanged,
                      base_name |-> Get(commit_list, from),
                      base_index |-> from,
                      comparison_name |-> Get(commit_list, to),
                      comparison_index |-> to,
                      total_commits |-> Len(commit_list)]
             r == [NoEffect EXCEPT !.base_index = from, !.comparison_index = to,
                                   !.screen = view]
         IN IF ~IsSome(next_page) THEN r
            ELSE IF Unwrap(next_page).direction = "Forward" /\ Len(commit_list) = 0
            THEN [r EXCEPT !.panicked = TRUE]
            ELSE IF has_next(Unwrap(next_page), from, to, Len(commit_list))
            THEN [r EXCEPT !.send = Some([type |-> "LoadCommits", pagination |-> next_page])]
            ELSE r
    [] response.type = "RenderInterdiff" ->
         [NoEffect EXCEPT !.screen = [type |-> "DiffView", commit |-> response.title,
                                      diff |-> response.diff, scroll |-> response.scroll]]

\* one iteration of run()'s loop on a worker response: apply it if it is
\* current, drop it otherwise, then send the screen to the UI thread
CtrlWorkerMsg ==
  /\ ctrlPc = "loop"
  /\ mainQ # <<>>
  /\ Head(mainQ).src = "Worker"
  /\ LET m == Head(mainQ)
         cur == IsCurrent(current_job, m.job_id)
         r == handle_worker(m.msg)
         id == next_job(current_job)
     IN /\ (cur /\ ~r.panicked /\ IsSome(r.send)) => id < MaxJobs
        /\ handled' = handled \cup {[job_id |-> m.job_id, current |-> Unwrap(current_job),
                                     applied |-> cur]}
        /\ IF ~cur
           THEN /\ UNCHANGED <<screen, commit_list, next_page, base_index,
                               comparison_index, current_job, ctrlPc, reqQ, submitted>>
                /\ viewQ' = Append(viewQ, screen)
           ELSE /\ screen' = r.screen
                /\ commit_list' = r.commit_list
                /\ next_page' = r.next_page
                /\ base_index' = r.base_index
                /\ comparison_index' = r.comparison_index
                /\ IF r.panicked
                   THEN /\ ctrlPc' = "panicked"
                        /\ UNCHANGED <<current_job, reqQ, submitted, viewQ>>
                   ELSE /\ ctrlPc' = "loop"
                        /\ viewQ' = Append(viewQ, r.screen)
                        /\ IF IsSome(r.send)
                           THEN /\ current_job' = Some(id)
                                /\ IF WorkerRxOpen
                                   THEN /\ reqQ' = Append(reqQ, [job_id |-> id, msg |-> Unwrap(r.send)])
                                        /\ submitted' = Append(submitted, [job_id |-> id, type |-> Unwrap(r.send).type,
                                                                        msg |-> Unwrap(r.send)])
                                   ELSE UNCHANGED <<reqQ, submitted>>
                           ELSE UNCHANGED <<current_job, reqQ, submitted>>
  /\ mainQ' = Tail(mainQ)
  /\ UNCHANGED <<screen_size, list_state, show_unchanged, reqTxOpen, workerVars,
                 uiVars, fetcherVars, pureVars, entered>>

\* ScrollEvent::get_new_index
get_new_index(ev, size, current, length) ==
  IF ev.kind = "Top" THEN 0
  ELSE IF ev.kind = "Bottom" THEN length
  ELSE LET amount == CASE ev.kind = "Single" -> 1
                       [] ev.kind = "Multi" -> ev.amount
                       [] ev.kind = "HalfPage" -> size[2] \div 2
                       [] ev.kind = "FullPage" -> size[2]
       IN IF ev.dir = "Up" THEN saturating_sub(current, amount)
          ELSE Min(length, current + amount)

\* usize -> u16 with try_into().unwrap_or_default()
ToU16OrDefault(n) == IF n <= 65535 THEN n ELSE 0

\* the head of the controller's queue is a UI event of the given type
UiEventIs(t) ==
  /\ ctrlPc = "loop"
  /\ mainQ # <<>>
  /\ Head(mainQ).src = "Ui"
  /\ Head(mainQ).ev.type = t

\* worker_req_tx.send(..)? followed by current_job = Some(job_id) and the
\* view send; a failed send returns the error from run()
DispatchOrAbort(req) ==
  LET id == next_job(current_job)
  IN /\ id < MaxJobs
     /\ IF WorkerRxOpen
        THEN /\ reqQ' = Append(reqQ, [job_id |-> id, msg |-> req])
             /\ submitted' = Append(submitted, [job_id |-> id, type |-> req.type, msg |-> req])
             /\ current_job' = Some(id)
             /\ ctrlPc' = "loop"
             /\ viewQ' = Append(viewQ, screen)
        ELSE /\ ctrlPc' = "aborted"
             /\ UNCHANGED <<reqQ, submitted, current_job, viewQ>>

\* UiEvent::SizeChange
CtrlSizeChange ==
  /\ UiEventIs("SizeChange")
  /\ screen_size' = Head(mainQ).ev.size
  /\ mainQ' = Tail(mainQ)
  /\ viewQ' = Append(viewQ, screen)
  /\ UNCHANGED <<screen, list_state, show_unchanged, commit_list, next_page,
                 base_index, comparison_index, current_job, ctrlPc, reqQ,
                 reqTxOpen, workerVars, uiVars, fetcherVars, pureVars, submitted, handled, entered>>

\* an Exit arm that forgets exit = true
CtrlExitKeepsLooping ==
  /\ UiEventIs("Exit")
  /\ screen' = ExitScreen
  /\ mainQ' = Tail(mainQ)
  /\ viewQ' = Append(viewQ, ExitScreen)
  /\ UNCHANGED <<screen_size, list_state, show_unchanged, commit_list, next_page,
                 base_index, comparison_index, current_job, ctrlPc, reqQ,
                 reqTxOpen, workerVars, uiVars, fetcherVars, pureVars, submitted, handled, entered>>

\* UiEvent::Exit: the Exit screen is sent and the loop is left
CtrlExit ==
  /\ UiEventIs("Exit")
  /\ screen' = ExitScreen
  /\ mainQ' = Tail(mainQ)
  /\ viewQ' = Append(viewQ, ExitScreen)
  /\ ctrlPc' = "join_ui"
  /\ UNCHANGED <<screen_size, list_state, show_unchanged, commit_list, next_page,
                 base_index, comparison_index, current_job, reqQ,
                 reqTxOpen, workerVars, uiVars, fetcherVars, pureVars, submitted, handled, entered>>

\* UiEvent::Scroll
CtrlScroll ==
  /\ UiEventIs("Scroll")
  /\ LET ev == Head(mainQ).ev.ev
     IN IF screen.type = "List"
        THEN LET current == unwrap_or_default(screen.list_state)
                 new == get_new_index(ev, screen_size, current,
                                      Len(get_visible_commits(screen)))
             IN /\ list_state' = Some(new)
                /\ screen' = [screen EXCEPT !.list_state = Some(new)]
        ELSE IF screen.type = "DiffView"
        THEN /\ screen' = [screen EXCEPT !.scroll =
                             ToU16OrDefault(get_new_index(ev, screen_size,
                                                          screen.scroll, screen.diff))]
             /\ UNCHANGED list_state
        ELSE UNCHANGED <<screen, list_state>>
  /\ mainQ' = Tail(mainQ)
  /\ viewQ' = Append(viewQ, screen')
  /\ UNCHANGED <<screen_size, show_unchanged, commit_list, next_page,
                 base_index, comparison_index, current_job, ctrlPc, reqQ,
                 reqTxOpen, workerVars, uiVars, fetcherVars, pureVars, submitted, handled, entered>>

\* UiEvent::PatchsetChange
CtrlPatchsetChange ==
  /\ UiEventIs("PatchsetChange")
  /\ LET from_index == Head(mainQ).ev.from
         to_index == Head(mainQ).ev.to
     IN IF IsSome(Get(commit_list, from_index)) /\ IsSome(Get(commit_list, to_index))
        THEN DispatchOrAbort(CalcRequest(commit_list, from_index, to_index))
        ELSE /\ viewQ' = Append(viewQ, screen)
             /\ UNCHANGED <<reqQ, submitted, current_job, ctrlPc>>
  /\ mainQ' = Tail(mainQ)
  /\ UNCHANGED <<screen, screen_size, list_state, show_unchanged, commit_list,
                 next_page, base_index, comparison_index,
                 reqTxOpen, workerVars, uiVars, fetcherVars, pureVars, handled, entered>>

\* an EnterDiff arm that indexes all rows instead of the visible ones
CtrlEnterDiffUnfiltered ==
  /\ UiEventIs("EnterDiff")
  /\ LET idx == Head(mainQ).ev.idx
         entry == IF screen.type = "List" THEN Get(screen.commits, idx) ELSE None
     IN IF IsSome(entry)
        THEN /\ DispatchOrAbort([type |-> "RenderInterdiff",
                                 from |-> Unwrap(entry).from,
                                 to |-> Unwrap(entry).to,
                                 render_width |-> screen_size[1],
                                 scroll |-> 0])
             /\ entered' = Some(<<Get(commit_list, screen.base_index),
                                  Get(commit_list, screen.comparison_index)>>)
        ELSE /\ viewQ' = Append(viewQ, screen)
             /\ UNCHANGED <<reqQ, submitted, current_job, ctrlPc, entered>>
  /\ mainQ' = Tail(mainQ)
  /\ UNCHANGED <<screen, screen_size, list_state, show_unchanged, commit_list,
                 next_page, base_index, comparison_index,
                 reqTxOpen, workerVars, uiVars, fetcherVars, pureVars, handled>>

\* UiEvent::EnterDiff
CtrlEnterDiff ==
  /\ UiEventIs("EnterDiff")
  /\ LET idx == Head(mainQ).ev.idx
         entry == IF screen.type = "List" THEN Get(get_visible_commits(screen), idx) ELSE None
     IN IF IsSome(entry)
        THEN /\ DispatchOrAbort([type |-> "RenderInterdiff",
                                 from |-> Unwrap(entry).from,
                                 to |-> Unwrap(entry).to,
                                 render_width |-> screen_size[1],
                                 scroll |-> 0])
             /\ entered' = Some(<<Get(commit_list, screen.base_index),
                                  Get(commit_list, screen.comparison_index)>>)
        ELSE /\ viewQ' = Append(viewQ, screen)
             /\ UNCHANGED <<reqQ, submitted, current_job, ctrlPc, entered>>
  /\ mainQ' = Tail(mainQ)
  /\ UNCHANGED <<screen, screen_size, list_state, show_unchanged, commit_list,
                 next_page, base_index, comparison_index,
                 reqTxOpen, workerVars, uiVars, fetcherVars, pureVars, handled>>

\* UiEvent::BackToList
CtrlBackToList ==
  /\ UiEventIs("BackToList")
  /\ IF IsSome(Get(commit_list, base_index)) /\ IsSome(Get(commit_list, comparison_index))
     THEN DispatchOrAbort(CalcRequest(commit_list, base_index, comparison_index))
     ELSE /\ viewQ' = Append(viewQ, screen)
          /\ UNCHANGED <<reqQ, submitted, current_job, ctrlPc>>
  /\ mainQ' = Tail(mainQ)
  /\ UNCHANGED <<screen, screen_size, list_state, show_unchanged, commit_list,
                 next_page, base_index, comparison_index,
                 reqTxOpen, workerVars, uiVars, fetcherVars, pureVars, handled, entered>>

\* a ToggleUnchanged arm that leaves the selection where it is
CtrlToggleKeepsSelection ==
  /\ UiEventIs("ToggleUnchanged")
  /\ IF screen.type = "List"
     THEN /\ show_unchanged' = ~show_unchanged
          /\ screen' = [screen EXCEPT !.show_unchanged = ~show_unchanged]
          /\ UNCHANGED list_state
     ELSE UNCHANGED <<show_unchanged, screen, list_state>>
  /\ mainQ' = Tail(mainQ)
  /\ viewQ' = Append(viewQ, screen')
  /\ UNCHANGED <<screen_size, commit_list, next_page,
                 base_index, comparison_index, current_job, ctrlPc, reqQ,
                 reqTxOpen, workerVars, uiVars, fetcherVars, pureVars, submitted, handled, entered>>

\* UiEvent::ToggleUnchanged
CtrlToggleUnchanged ==
  /\ UiEventIs("ToggleUnchanged")
  /\ IF screen.type = "List"
     THEN /\ show_unchanged' = ~show_unchanged
          /\ screen' = [screen EXCEPT !.show_unchanged = ~show_unchanged,
                                      !.list_state = Some(0)]
          /\ list_state' = Some(0)
     ELSE UNCHANGED <<show_unchanged, screen, list_state>>
  /\ mainQ' = Tail(mainQ)
  /\ viewQ' = Append(viewQ, screen')
  /\ UNCHANGED <<screen_size, commit_list, next_page,
                 base_index, comparison_index, current_job, ctrlPc, reqQ,
                 reqTxOpen, workerVars, uiVars, fetcherVars, pureVars, submitted, handled, entered>>

\* UiEvent::CopyToClipboard: only the clipboard (outside the model) changes
CtrlCopyToClipboard ==
  /\ UiEventIs("CopyToClipboard")
  /\ mainQ' = Tail(mainQ)
  /\ viewQ' = Append(viewQ, screen)
  /\ UNCHANGED <<appVars, ctrlPc, reqQ, reqTxOpen, workerVars, uiVars,
                 fetcherVars, pureVars, submitted, handled, entered>>

\* drop(view_tx); ui_handle.join(); drop(app.worker_req_tx)
CtrlJoinUi ==
  /\ ctrlPc = "join_ui"
  /\ uiPc = "done"
  /\ reqTxOpen' = FALSE
  /\ ctrlPc' = "join_worker"
  /\ UNCHANGED <<appVars, reqQ, mainQ, viewQ, workerVars, uiVars,
                 fetcherVars, pureVars, submitted, handled, entered>>

\* worker_handle.join(); Ok(())
CtrlJoinWorker ==
  /\ ctrlPc = "join_worker"
  /\ workerPc \in {"done", "failed"}
  /\ ctrlPc' = "done"
  /\ UNCHANGED <<appVars, reqQ, mainQ, viewQ, reqTxOpen, workerVars, uiVars,
                 fetcherVars, pureVars, submitted, handled, entered>>

\* ---------------------------------------------------------------- worker
\* a receiver that yields the newest queued request first
TakeRequestNewest(q) == [req |-> Last(q), rest |-> SubSeq(q, 1, Len(q) - 1)]

\* worker_request_rx.recv(): the oldest queued request and the queue it leaves
TakeRequest(q) == [req |-> Head(q), rest |-> Tail(q)]
NextRequest(q) == TakeRequest(q).req
RestRequests(q) == TakeRequest(q).rest

\* recv() fails once the queue is empty and the sender is dropped: Ok(())
WorkerExit ==
  /\ ProcessAlive
  /\ workerPc = "idle"
  /\ reqQ = <<>>
  /\ ~reqTxOpen
  /\ workerPc' = "done"
  /\ UNCHANGED <<appVars, ctrlPc, reqQ, mainQ, viewQ, reqTxOpen,
                 received, responded, uiVars, fetcherVars, pureVars, submitted, handled, entered>>

\* one iteration of the worker's loop takes a request and .. (each arm below
\* is a whole iteration: recv, servicing, send; the worker touches no shared
\* state in between)
WorkerTakes(t) ==
  /\ ProcessAlive
  /\ workerPc = "idle"
  /\ reqQ # <<>>
  /\ NextRequest(reqQ).msg.type = t
  /\ reqQ' = RestRequests(reqQ)
  /\ received' = Append(received, NextRequest(reqQ).job_id)

\* worker_response_tx.send(WorkerMsg { job_id: request.job_id, msg: response })
Respond(response) ==
  /\ mainQ' = Append(mainQ, [src |-> "Worker", job_id |-> NextRequest(reqQ).job_id,
                             msg |-> response])
  /\ responded' = Append(responded, NextRequest(reqQ).job_id)
  /\ workerPc' = "idle"

\* what the LoadCommits arm does when ensure_commits_exist fails: the `?`
\* returns the error from the worker's closure
EnsureFailed ==
  /\ workerPc' = "failed"
  /\ UNCHANGED <<mainQ, responded>>

\* WorkerRequest::LoadCommits
WorkerLoadCommits ==
  /\ WorkerTakes("LoadCommits")
  /\ \E outcome \in {"ok", "fetch_err", "ensure_err"}, n \in 0..MaxPageLen,
        last \in BOOLEAN :
       CASE outcome = "ok" ->
              Respond([type |-> "LoadCommits",
                       page |-> FetchPage(NextRequest(reqQ).msg.pagination, n, last)])
         [] outcome = "fetch_err" ->
              Respond([type |-> "Error", msg |-> "fetch_history"])
         [] outcome = "ensure_err" -> EnsureFailed
  /\ UNCHANGED <<appVars, ctrlPc, viewQ, reqTxOpen, uiVars,
                 fetcherVars, pureVars, submitted, handled, entered>>

\* WorkerRequest::CalculateBranchDiff
WorkerCalculateBranchDiff ==
  /\ WorkerTakes("CalculateBranchDiff")
  /\ \E ok \in BOOLEAN, scn \in RepoScenarios :
       IF ok
       THEN Respond([type |-> "CalculateBranchDiff",
                     commits |-> calculate_branch_diff(scn.from, scn.to, scn.cstat, scn.dstat),
                     from |-> NextRequest(reqQ).msg.from_index,
                     to |-> NextRequest(reqQ).msg.to_index])
       ELSE Respond([type |-> "Error", msg |-> "calculate_branch_diff"])
  /\ UNCHANGED <<appVars, ctrlPc, viewQ, reqTxOpen, uiVars,
                 fetcherVars, pureVars, submitted, handled, entered>>

\* worker::render_interdiff; fromOk/toOk: get_commit succeeds, renderOk:
\* diffsoup::diff::render_interdiff succeeds
render_interdiff(from_sha, to_sha, scroll, fromOk, toOk, renderOk, lines) ==
  LET from_commit == IF IsSome(from_sha) /\ fromOk THEN from_sha ELSE None
      to_commit == IF IsSome(to_sha) /\ toOk THEN to_sha ELSE None
      trees == DiffTreeFrom(from_commit, to_commit)
  IN IF ~IsSome(trees)
     THEN [type |-> "Error", msg |-> "no commits in this diff to render"]
     ELSE IF renderOk
     THEN [type |-> "RenderInterdiff", title |-> Unwrap(trees), diff |-> lines,
           scroll |-> scroll]
     ELSE [type |-> "Error", msg |-> "render_interdiff"]

\* WorkerRequest::RenderInterdiff
WorkerRenderInterdiff ==
  /\ WorkerTakes("RenderInterdiff")
  /\ \E fromOk \in BOOLEAN, toOk \in BOOLEAN, renderOk \in BOOLEAN,
        lines \in DiffLineCounts :
       Respond(render_interdiff(NextRequest(reqQ).msg.from, NextRequest(reqQ).msg.to,
                                NextRequest(reqQ).msg.scroll,
                                fromOk, toOk, renderOk, lines))
  /\ UNCHANGED <<appVars, ctrlPc, viewQ, reqTxOpen, uiVars,
                 fetcherVars, pureVars, submitted, handled, entered>>

\* ------------------------------------------------------------- UI thread
Keys == {"ctrl-c", "q", "j", "enter", "h", "[", "]", "{", "}", "<", ">", "G", "y"}

ScrollEv(kind, dir) == [type |-> "Scroll", ev |-> [kind |-> kind, dir |-> dir, amount |-> 0]]
PatchsetChange(from, to) == [type |-> "PatchsetChange", from |-> from, to |-> to]

\* handle_list_keys whose ']' does not compare the base with the comparison
handle_list_keys_unguarded(key, lv) ==
  CASE key = "q" -> Some([type |-> "Exit"])
    [] key = "j" -> Some(ScrollEv("Single", "Down"))
    [] key = "k" -> Some(ScrollEv("Single", "Up"))
    [] key = "enter" ->
         IF IsSome(lv.list_state)
         THEN Some([type |-> "EnterDiff", idx |-> Unwrap(lv.list_state)]) ELSE None
    [] key = "h" -> Some([type |-> "ToggleUnchanged"])
    [] key = "[" ->
         IF lv.base_index > 0
         THEN Some(PatchsetChange(lv.base_index - 1, lv.comparison_index)) ELSE None
    [] key = "]" -> Some(PatchsetChange(lv.base_index + 1, lv.comparison_index))
    [] key = "{" ->
         IF lv.comparison_index > lv.base_index
         THEN Some(PatchsetChange(lv.base_index, lv.comparison_index - 1)) ELSE None
    [] key = "}" ->
         IF lv.comparison_index < lv.total_commits - 1
         THEN Some(PatchsetChange(lv.base_index, lv.comparison_index + 1)) ELSE None
    [] key = "<" ->
         IF lv.base_index > 0 /\ lv.comparison_index > 0
         THEN Some(PatchsetChange(lv.base_index - 1, lv.comparison_index - 1)) ELSE None
    [] key = ">" ->
         IF lv.base_index < lv.total_commits - 1
            /\ lv.comparison_index < lv.total_commits - 1
         THEN Some(PatchsetChange(lv.base_index + 1, lv.comparison_index + 1)) ELSE None
    [] OTHER -> None

handle_list_keys(key, lv) ==
  CASE key = "q" -> Some([type |-> "Exit"])
    [] key = "j" -> Some(ScrollEv("Single", "Down"))
    [] key = "k" -> Some(ScrollEv("Single", "Up"))
    [] key = "enter" ->
         IF IsSome(lv.list_state)
         THEN Some([type |-> "EnterDiff", idx |-> Unwrap(lv.list_state)]) ELSE None
    [] key = "h" -> Some([type |-> "ToggleUnchanged"])
    [] key = "[" ->
         IF lv.base_index > 0
         THEN Some(PatchsetChange(lv.base_index - 1, lv.comparison_index)) ELSE None
    [] key = "]" ->
         IF lv.base_index < lv.comparison_index
         THEN Some(PatchsetChange(lv.base_index + 1, lv.comparison_index)) ELSE None
    [] key = "{" ->
         IF lv.comparison_index > lv.base_index
         THEN Some(PatchsetChange(lv.base_index, lv.comparison_index - 1)) ELSE None
    [] key = "}" ->
         IF lv.comparison_index < lv.total_commits - 1
         THEN Some(PatchsetChange(lv.base_index, lv.comparison_index + 1)) ELSE None
    [] key = "<" ->
         IF lv.base_index > 0 /\ lv.comparison_index > 0
         THEN Some(PatchsetChange(lv.base_index - 1, lv.comparison_index - 1)) ELSE None
    [] key = ">" ->
         IF lv.base_index < lv.total_commits - 1
            /\ lv.comparison_index < lv.total_commits - 1
         THEN Some(PatchsetChange(lv.base_index + 1, lv.comparison_index + 1)) ELSE None
    [] OTHER -> None

handle_diff_keys(key) ==
  CASE key = "k" -> Some(ScrollEv("Single", "Up"))
    [] key = "j" -> Some(ScrollEv("Single", "Down"))
    [] key = "ctrl-d" -> Some(ScrollEv("HalfPage", "Down"))
    [] key = "ctrl-u" -> Some(ScrollEv("HalfPage", "Up"))
    [] key = "ctrl-f" -> Some(ScrollEv("FullPage", "Down"))
    [] key = "ctrl-b" -> Some(ScrollEv("FullPage", "Up"))
    [] key = "g" -> Some(ScrollEv("Top", "Up"))
    [] key = "G" -> Some(ScrollEv("Bottom", "Down"))
    [] key = "q" -> Some([type |-> "BackToList"])
    [] key = "y" -> Some([type |-> "CopyToClipboard"])
    [] OTHER -> None

handle_event(key, scr) ==
  IF key = "ctrl-c" THEN Some([type |-> "Exit"])
  ELSE IF scr.type = "List" THEN handle_list_keys(key, scr)
  ELSE IF scr.type = "DiffView" THEN handle_diff_keys(key)
  ELSE None

\* the size the UI thread reports before it enters its loop
UiStart ==
  /\ ProcessAlive
  /\ uiPc = "start"
  /\ \E size \in TermSizes :
       mainQ' = Append(mainQ, [src |-> "Ui", ev |-> [type |-> "SizeChange", size |-> size]])
  /\ uiPc' = "poll"
  /\ UNCHANGED <<appVars, ctrlPc, reqQ, viewQ, reqTxOpen, workerVars, uiScreen,
                 uiCount, fetcherVars, pureVars, submitted, handled, entered>>

\* the loop's condition: while !matches!(screen, AppScreen::Exit)
UiLoopPc(scr) == IF scr.type = "Exit" THEN "done" ELSE "poll"

\* the UI thread's screen after k iterations in which poll() timed out and
\* try_recv() yielded a view
ScreenAfter(k) == IF k = 0 THEN uiScreen ELSE viewQ[k]

\* k iterations without an event, then one iteration of the loop with an
\* event: the action decided on the thread's screen is sent, then try_recv()
\* takes the next view if one is queued
UiIteration(k, action) ==
  LET rest == SubSeq(viewQ, k + 1, Len(viewQ))
  IN /\ ProcessAlive
     /\ uiPc = "poll"
     /\ uiCount < MaxUiEvents
     /\ \A i \in 1..k : viewQ[i].type # "Exit"
     /\ IsSome(action)
     /\ mainQ' = Append(mainQ, [src |-> "Ui", ev |-> Unwrap(action)])
     /\ uiCount' = uiCount + 1
     /\ IF rest # <<>>
        THEN /\ uiScreen' = Head(rest)
             /\ viewQ' = Tail(rest)
             /\ uiPc' = UiLoopPc(Head(rest))
        ELSE /\ uiScreen' = ScreenAfter(k)
             /\ viewQ' = <<>>
             /\ uiPc' = "poll"
     /\ UNCHANGED <<appVars, ctrlPc, reqQ, reqTxOpen, workerVars,
                    fetcherVars, pureVars, submitted, handled, entered>>

\* Event::Key: the event is decided on the UI thread's copy of the screen
UiKey ==
  \E k \in 0..Len(viewQ), key \in Keys :
    UiIteration(k, handle_event(key, ScreenAfter(k)))

\* Event::Resize
UiResize ==
  \E k \in 0..Len(viewQ), size \in TermSizes :
    UiIteration(k, Some([type |-> "SizeChange", size |-> size]))

\* the thread draws the views up to the Exit screen and leaves its loop
UiExit ==
  /\ ProcessAlive
  /\ uiPc = "poll"
  /\ viewQ # <<>>
  /\ Last(viewQ).type = "Exit"
  /\ uiScreen' = Last(viewQ)
  /\ viewQ' = <<>>
  /\ uiPc' = "done"
  /\ UNCHANGED <<appVars, ctrlPc, reqQ, mainQ, reqTxOpen, workerVars,
                 uiCount, fetcherVars, pureVars, submitted, handled, entered>>

\* ------------------------------------------------------------ the system
Next ==
  \/ CtrlWorkerMsg
  \/ CtrlSizeChange
  \/ CtrlExit
  \/ CtrlScroll
  \/ CtrlPatchsetChange
  \/ CtrlEnterDiff
  \/ CtrlBackToList
  \/ CtrlToggleUnchanged
  \/ CtrlCopyToClipboard
  \/ CtrlJoinUi
  \/ CtrlJoinWorker
  \/ WorkerExit
  \/ WorkerLoadCommits
  \/ WorkerCalculateBranchDiff
  \/ WorkerRenderInterdiff
  \/ UiStart
  \/ UiKey
  \/ UiResize
  \/ UiExit

Spec == Init /\ [][Next]_vars

\* scheduling after a quit: the UI thread keeps iterating its loop, the worker
\* keeps taking requests (each external call in progress returns), and the
\* two join() calls return once the joined thread has ended
ShutdownFairness ==
  /\ WF_vars(UiStart)
  /\ WF_vars(UiExit)
  /\ WF_vars(CtrlJoinUi)
  /\ WF_vars(CtrlJoinWorker)
  /\ WF_vars(WorkerLoadCommits)
  /\ WF_vars(WorkerCalculateBranchDiff)
  /\ WF_vars(WorkerRenderInterdiff)
  /\ WF_vars(WorkerExit)

SpecShutdown == Init /\ [][Next]_vars /\ ShutdownFairness

\* scheduling of the whole pipeline: in addition, run()'s loop takes every
\* message that arrives on its channel and processes it
PipelineFairness ==
  /\ ShutdownFairness
  /\ WF_vars(CtrlWorkerMsg)
  /\ WF_vars(CtrlSizeChange)
  /\ WF_vars(CtrlExit)
  /\ WF_vars(CtrlScroll)
  /\ WF_vars(CtrlPatchsetChange)
  /\ WF_vars(CtrlEnterDiff)
  /\ WF_vars(CtrlBackToList)
  /\ WF_vars(CtrlToggleUnchanged)
  /\ WF_vars(CtrlCopyToClipboard)

SpecLive == Init /\ [][Next]_vars /\ PipelineFairness

\* --------------------------------------- calculate_branch_diff on its own
pipelineVars == <<appVars, ctrlPc, reqQ, mainQ, viewQ, reqTxOpen, workerVars,
                  uiVars, fetcherVars, submitted, handled, entered>>

\* the commits a repository may hold: shas 1 and 2 share DiffSource 1, shas
\* 3 and 4 share DiffSource 2 (a rewrite, or a collision of author metadata)
Commits ==
  { [sha |-> 1, src |-> 1], [sha |-> 2, src |-> 1],
    [sha |-> 3, src |-> 2], [sha |-> 4, src |-> 2],
    [sha |-> 5, src |-> 3] }

\* what a revset evaluates to: a list of distinct commits
CommitSeqs ==
  UNION { { q \in [1..n -> Commits] : \A x, y \in 1..n : x # y => q[x] # q[y] }
          : n \in 0..MaxSeqLen }

\* the changed_files the two stats functions report
StatScenarios == { [cstat |-> 1, dstat |-> 0], [cstat |-> 1, dstat |-> 1] }

LoopRuns == rAlign.i < Len(rFrom) \/ rAlign.j < Len(rTo)

InitReconcile ==
  /\ PipelineInit
  /\ RenderIdle
  /\ JobIdIdle
  /\ ScrollIdle
  /\ fetcherDir = "Backward"
  /\ rPc = "align"
  /\ rFrom \in CommitSeqs
  /\ rTo \in CommitSeqs
  /\ rStats \in StatScenarios
  /\ rAlign = AlignStart
  /\ rSteps = <<>>
  /\ rOut = <<>>
  /\ hcRow = [from |-> None, to |-> None, changed_files |-> 0]
  /\ hcResult = None

\* one iteration of the while loop
ReconcileStep ==
  /\ rPc = "align"
  /\ LoopRuns
  /\ rAlign' = AlignStep(rFrom, rTo, rAlign)
  /\ rSteps' = Append(rSteps, [kind |-> StepKind(rFrom, rTo, rAlign.i, rAlign.j),
                               i |-> rAlign.i, j |-> rAlign.j])
  /\ UNCHANGED <<pipelineVars, rPc, rFrom, rTo, rStats, rOut, hasChangesVars, renderVars, jobIdVars, scrollVars>>

\* the for loop over change_ids and the return
ReconcileRows ==
  /\ rPc = "align"
  /\ ~LoopRuns
  /\ rOut' = BuildRows(rAlign, rStats.cstat, rStats.dstat)
  /\ rPc' = "done"
  /\ UNCHANGED <<pipelineVars, rFrom, rTo, rStats, rAlign, rSteps, hasChangesVars, renderVars, jobIdVars, scrollVars>>

NextReconcile ==
  \/ ReconcileStep
  \/ ReconcileRows

SpecReconcile == InitReconcile /\ [][NextReconcile]_vars

\* ------------------------------------------------- has_changes on its own
Shas == { c.sha : c \in Commits }
OptionSha == { None } \cup { Some(x) : x \in Shas }

InitHasChanges ==
  /\ PipelineInit
  /\ RenderIdle
  /\ JobIdIdle
  /\ ScrollIdle
  /\ fetcherDir = "Backward"
  /\ rPc = "off"
  /\ rFrom = <<>>
  /\ rTo = <<>>
  /\ rStats = [cstat |-> 0, dstat |-> 0]
  /\ rAlign = AlignStart
  /\ rSteps = <<>>
  /\ rOut = <<>>
  /\ hcRow \in [from : OptionSha, to : OptionSha, changed_files : 0..MaxChangedFiles]
  /\ hcResult = None

HasChangesCall ==
  /\ hcResult = None
  /\ hcResult' = Some(has_changes(hcRow))
  /\ UNCHANGED <<pipelineVars, reconcileVars, hcRow, renderVars, jobIdVars, scrollVars>>

NextHasChanges == HasChangesCall

SpecHasChanges == InitHasChanges /\ [][NextHasChanges]_vars

\* -------------------------------------------- render_interdiff on its own
InitRender ==
  /\ PipelineInit
  /\ JobIdIdle
  /\ ScrollIdle
  /\ fetcherDir = "Backward"
  /\ rPc = "off"
  /\ rFrom = <<>>
  /\ rTo = <<>>
  /\ rStats = [cstat |-> 0, dstat |-> 0]
  /\ rAlign = AlignStart
  /\ rSteps = <<>>
  /\ rOut = <<>>
  /\ hcRow = [from |-> None, to |-> None, changed_files |-> 0]
  /\ hcResult = None
  /\ rnIn \in [from : OptionSha, to : OptionSha, fromOk : BOOLEAN, toOk : BOOLEAN,
                renderOk : BOOLEAN]
  /\ rnOut = None

RenderCall ==
  /\ rnOut = None
  /\ \E lines \in DiffLineCounts :
       rnOut' = Some(render_interdiff(rnIn.from, rnIn.to, 0, rnIn.fromOk, rnIn.toOk,
                                      rnIn.renderOk, lines))
  /\ UNCHANGED <<pipelineVars, reconcileVars, hasChangesVars, rnIn, jobIdVars, scrollVars>>

NextRender == RenderCall

SpecRender == InitRender /\ [][NextRender]_vars

\* ------------------------------------------------- JobId::next on its own
\* ids around the carries of the limbs and around the wrap
U64Samples == [1..U64Limbs -> {0, 1, LimbBase - 2, LimbBase - 1}]

InitJobId ==
  /\ PipelineInit
  /\ fetcherDir = "Backward"
  /\ RenderIdle
  /\ rPc = "off"
  /\ rFrom = <<>>
  /\ rTo = <<>>
  /\ rStats = [cstat |-> 0, dstat |-> 0]
  /\ rAlign = AlignStart
  /\ rSteps = <<>>
  /\ rOut = <<>>
  /\ hcRow = [from |-> None, to |-> None, changed_files |-> 0]
  /\ hcResult = None
  /\ jId \in U64Samples
  /\ jIssued = <<>>
  /\ ScrollIdle

\* app.next_job() on Some(id): the next id is handed out
JobIdCall ==
  /\ Len(jIssued) < MaxDispatches
  /\ jId' = JobIdNextU64(jId)
  /\ jIssued' = Append(jIssued, jId')
  /\ UNCHANGED <<pipelineVars, reconcileVars, hasChangesVars, renderVars, scrollVars>>

NextJobId == JobIdCall

SpecJobId == InitJobId /\ [][NextJobId]_vars

\* ------------------------------------- the DiffView Scroll arm on its own
\* line counts of a diff: empty, short, and around the largest u16
DiffLineSamples == {0, 3, 65535, 65536, 70000}
ScrollSizes == {<<4, 2>>, <<80, 24>>}
ScrollEvents ==
  {[kind |-> "Top", dir |-> "Up", amount |-> 0],
   [kind |-> "Bottom", dir |-> "Down", amount |-> 0]}
  \cup [kind : {"Single", "HalfPage", "FullPage"}, dir : {"Up", "Down"}, amount : {0}]
  \cup [kind : {"Multi"}, dir : {"Up", "Down"}, amount : {5, 65535}]

InitScroll ==
  /\ PipelineInit
  /\ fetcherDir = "Backward"
  /\ RenderIdle
  /\ JobIdIdle
  /\ rPc = "off"
  /\ rFrom = <<>>
  /\ rTo = <<>>
  /\ rStats = [cstat |-> 0, dstat |-> 0]
  /\ rAlign = AlignStart
  /\ rSteps = <<>>
  /\ rOut = <<>>
  /\ hcRow = [from |-> None, to |-> None, changed_files |-> 0]
  /\ hcResult = None
  /\ dvView \in [scroll : {0}, diff : DiffLineSamples]
  /\ dvSize \in ScrollSizes
  /\ dvEv = None
  /\ dvCount = 0

\* the DiffView arm of UiEvent::Scroll
DiffScroll ==
  /\ dvCount < MaxScrolls
  /\ \E ev \in ScrollEvents :
       /\ dvEv' = Some(ev)
       /\ dvView' = [dvView EXCEPT !.scroll =
                       ToU16OrDefault(get_new_index(ev, dvSize, dvView.scroll,
                                                    dvView.diff))]
  /\ dvCount' = dvCount + 1
  /\ UNCHANGED <<pipelineVars, reconcileVars, hasChangesVars, renderVars, jobIdVars, dvSize>>

NextScroll == DiffScroll

SpecScroll == InitScroll /\ [][NextScroll]_vars

\* ---------------------------------------------------------------- claims
Range(f) == {f[x] : x \in DOMAIN f}

\* the controller takes a worker response from its queue in this step
CtrlTakesResponse ==
  /\ ctrlPc = "loop"
  /\ mainQ # <<>>
  /\ Head(mainQ).src = "Worker"
  /\ mainQ' = Tail(mainQ)

\* ... and the response carries the id in current_job
CtrlAppliesResponse(t) ==
  /\ CtrlTakesResponse
  /\ current_job = Some(Head(mainQ).job_id)
  /\ Head(mainQ).msg.type = t

\* C1: a worker response whose job id differs from current_job when the
\* controller receives it changes none of screen, commit_list, next_page,
\* base_index, comparison_index, current_job (and sends no request)
C1_StaleResponseDiscarded ==
  [][(CtrlTakesResponse /\ current_job # Some(Head(mainQ).job_id))
       => UNCHANGED <<screen, commit_list, next_page, base_index,
                      comparison_index, current_job, reqQ>>]_vars

\* a response for job j was dropped while current_job was j + 2, and the
\* response for j + 2 was applied
C1_Witness ==
  \E d \in handled, a \in handled :
    /\ ~d.applied /\ a.applied
    /\ d.current = a.job_id
    /\ a.job_id = d.job_id + 2

\* C2: the worker answers the requests in submission order, one response per
\* request received, carrying the request's id
C2_OneResponsePerRequest ==
  /\ responded = received
  /\ received = [k \in 1..Len(received) |-> submitted[k].job_id]

\* C3: no error raised while servicing a request terminates the worker
C3_WorkerSurvivesErrors == workerPc # "failed"

\* C4: the ids of the submitted requests are 0, 1, 2, .. in submission order
\* and current_job is the id submitted last
C4_JobIdsSequential ==
  /\ \A k \in 1..Len(submitted) : submitted[k].job_id = k - 1
  /\ current_job = Some(Len(submitted) - 1)

\* requests of all three kinds were dispatched, by the initial load, by
\* handle_worker and by UI events
C4_Witness ==
  /\ Len(submitted) >= 5
  /\ {submitted[k].type : k \in 1..Len(submitted)}
       = {"LoadCommits", "CalculateBranchDiff", "RenderInterdiff"}

\* C5: a Backward page of k items applied in List with view indices (b, c)
\* leaves the view at (b + k, c + k) with total_commits the new length, and
\* the identifiers at the new indices are those that were at b and c
C5_BackwardPageRebasesView ==
  [][(/\ CtrlAppliesResponse("LoadCommits")
      /\ Head(mainQ).msg.page.direction = "Backward"
      /\ screen.type = "List")
       => LET k == Len(Head(mainQ).msg.page.items)
              b == screen.base_index
              c == screen.comparison_index
          IN /\ screen'.type = "List"
             /\ screen'.base_index = b + k
             /\ screen'.comparison_index = c + k
             /\ screen'.total_commits = Len(commit_list')
             /\ Get(commit_list', b + k) = Get(commit_list, b)
             /\ Get(commit_list', c + k) = Get(commit_list, c)
             /\ IsSome(Get(commit_list, b)) /\ IsSome(Get(commit_list, c))]_vars

\* a non-empty Backward page was applied in List
C5_Witness ==
  /\ fetcherDir = "Backward"
  /\ screen.type = "List"
  /\ screen.base_index > base_index
  /\ screen.total_commits = 4

\* C6: with a Backward history, a back input in DiffView dispatches a
\* reconciliation of the two identifiers the List compared when the diff was
\* entered
C6_BackReconcilesEnteredPair ==
  [][(/\ UiEventIs("BackToList")
      /\ mainQ' = Tail(mainQ)
      /\ screen.type = "DiffView"
      /\ fetcherDir = "Backward"
      /\ reqQ' # reqQ)
       => /\ Some(Last(reqQ').msg.from) = Unwrap(entered)[1]
          /\ Some(Last(reqQ').msg.to) = Unwrap(entered)[2]]_vars

\* C7: an applied page is put before the directory if it is Backward and
\* after it if it is Forward
C7_PageSplicedAtItsEnd ==
  [][CtrlAppliesResponse("LoadCommits")
       => commit_list' = IF Head(mainQ).msg.page.direction = "Backward"
                         THEN Head(mainQ).msg.page.items \o commit_list
                         ELSE commit_list \o Head(mainQ).msg.page.items]_vars

\* C8: the directory changes only when a current LoadCommits response is
\* applied, and then the new directory is the old one with the whole page
\* put in front of it or behind it
C8_DirectoryGrowsByWholePages ==
  [][commit_list' # commit_list
       => /\ CtrlAppliesResponse("LoadCommits")
          /\ \/ commit_list' = Head(mainQ).msg.page.items \o commit_list
             \/ commit_list' = commit_list \o Head(mainQ).msg.page.items]_vars

\* two pages were applied
C8_Witness ==
  \E i \in 1..Len(commit_list), j \in 1..Len(commit_list) :
    commit_list[i][1] = 0 /\ commit_list[j][1] = 1

\* C9: applying a reconciliation response sends LoadCommits with the stored
\* token exactly if a token is stored and, by its direction, the new base
\* index is 0 (Backward) or the new comparison index is the last index of
\* the directory (Forward); otherwise nothing is sent
C9_AutoContinuation ==
  [][CtrlAppliesResponse("CalculateBranchDiff")
       => LET r == Head(mainQ).msg
              edge == /\ IsSome(next_page)
                      /\ \/ /\ Unwrap(next_page).direction = "Backward"
                            /\ r.from = 0
                         \/ /\ Unwrap(next_page).direction = "Forward"
                            /\ r.to = Len(commit_list) - 1
          IN IF edge
             THEN /\ reqQ' = Append(reqQ, [job_id |-> Unwrap(current_job) + 1,
                                           msg |-> [type |-> "LoadCommits",
                                                    pagination |-> next_page]])
                  /\ current_job' = Some(Unwrap(current_job) + 1)
             ELSE UNCHANGED <<reqQ, current_job>>]_vars

\* a reconciliation was applied and the next page was requested with the
\* stored token
C9_Witness ==
  /\ screen.type = "List"
  /\ reqQ # <<>>
  /\ Last(reqQ).msg.type = "LoadCommits"
  /\ Last(reqQ).msg.pagination = next_page
  /\ IsSome(next_page)
  /\ current_job = Some(Last(reqQ).job_id)

\* the LoadCommits requests submitted and not answered by the worker
UnansweredLoads ==
  {k \in 1..Len(submitted) : /\ submitted[k].type = "LoadCommits"
                             /\ submitted[k].job_id \notin Range(responded)}

\* C10: at most one LoadCommits request is submitted and not yet answered
C10_OneLoadOutstanding == Cardinality(UnansweredLoads) <= 1

\* a continuation LoadCommits is queued and a later request behind it
C10_Witness ==
  /\ Len(reqQ) >= 2
  /\ reqQ[1].msg.type = "LoadCommits"
  /\ reqQ[1].job_id > 0

\* C11: the first request is a LoadCommits without a token; applying its
\* page in Loading sends exactly one CalculateBranchDiff, for the last two
\* directory entries if the page is Backward and for the first two if it is
\* Forward, and Loading is then left for List or Error only by the response
\* of that reconciliation
C11_InitialLoadReconciles ==
  [][/\ received = <<>> =>
          /\ reqQ # <<>>
          /\ Head(reqQ) = [job_id |-> 0,
                           msg |-> [type |-> "LoadCommits", pagination |-> None]]
     /\ (CtrlAppliesResponse("LoadCommits") /\ screen.type = "Loading") =>
          LET page == Head(mainQ).msg.page
              len == Len(commit_list')
              from == IF page.direction = "Backward" THEN len - 2 ELSE 0
              to == IF page.direction = "Backward" THEN len - 1 ELSE 1
          IN /\ screen' = screen
             /\ 0 <= from /\ to < len
             /\ reqQ' = Append(reqQ,
                          [job_id |-> Unwrap(current_job) + 1,
                           msg |-> [type |-> "CalculateBranchDiff",
                                    from |-> commit_list'[from + 1], from_index |-> from,
                                    to |-> commit_list'[to + 1], to_index |-> to]])
     /\ (/\ Len(submitted) >= 2
         /\ screen.type = "Loading"
         /\ screen'.type \in {"List", "DiffView", "Error"}) =>
          /\ CtrlAppliesResponse(Head(mainQ).msg.type)
          /\ Head(mainQ).job_id = 1
          /\ Head(mainQ).msg.type \in {"CalculateBranchDiff", "Error"}]_vars

\* the DiffSources of a list of commits, and of a sha
Sources(q) == [k \in 1..Len(q) |-> q[k].src]
SourceOf(sha) == (CHOOSE c \in Commits : c.sha = sha).src
DistinctSources(q) == \A x, y \in 1..Len(q) : x # y => q[x].src # q[y].src
SharedSources == Range(Sources(rFrom)) \cap Range(Sources(rTo))
\* the shas on the from sides / to sides of the rows, in row order
FromSide(rows) ==
  LET sel == SelectSeq(rows, LAMBDA r : IsSome(r.from))
  IN [k \in 1..Len(sel) |-> Unwrap(sel[k].from)]
ToSide(rows) ==
  LET sel == SelectSeq(rows, LAMBDA r : IsSome(r.to))
  IN [k \in 1..Len(sel) |-> Unwrap(sel[k].to)]
OneSided(r) == IsSome(r.from) # IsSome(r.to)
TwoSided(r) == IsSome(r.from) /\ IsSome(r.to)
ShasOf(q) == [k \in 1..Len(q) |-> q[k].sha]

\* sources distinct within each side, shared sources in the same order
SameOrderInputs ==
  /\ DistinctSources(rFrom)
  /\ DistinctSources(rTo)
  /\ SelectSeq(Sources(rFrom), LAMBDA x : x \in SharedSources)
       = SelectSeq(Sources(rTo), LAMBDA x : x \in SharedSources)

\* C12: for inputs with distinct sources per side and shared sources in the
\* same relative order, the result has one two-sided row per shared source
\* (that source's from commit and to commit), one one-sided row per unshared
\* commit, the from commits in from order and the to commits in to order
C12_SameOrderReconcile ==
  (rPc = "done" /\ SameOrderInputs) =>
    /\ Len(rOut) = Len(rFrom) + Len(rTo) - Cardinality(SharedSources)
    /\ FromSide(rOut) = ShasOf(rFrom)
    /\ ToSide(rOut) = ShasOf(rTo)
    /\ \A k \in 1..Len(rOut) :
         /\ OneSided(rOut[k]) \/ TwoSided(rOut[k])
         /\ TwoSided(rOut[k]) =>
              /\ SourceOf(Unwrap(rOut[k].from)) = SourceOf(Unwrap(rOut[k].to))
              /\ SourceOf(Unwrap(rOut[k].from)) \in SharedSources
         /\ (IsSome(rOut[k].from) /\ ~IsSome(rOut[k].to)) =>
              SourceOf(Unwrap(rOut[k].from)) \notin SharedSources
         /\ (IsSome(rOut[k].to) /\ ~IsSome(rOut[k].from)) =>
              SourceOf(Unwrap(rOut[k].to)) \notin SharedSources
    /\ \A x \in SharedSources :
         Cardinality({k \in 1..Len(rOut) :
                        TwoSided(rOut[k]) /\ SourceOf(Unwrap(rOut[k].from)) = x}) = 1

\* from = [A, B], to = [B] gave [from-only(A), match(B, B)]
C12_Witness ==
  /\ rPc = "done"
  /\ rFrom = <<[sha |-> 1, src |-> 1], [sha |-> 3, src |-> 2]>>
  /\ rTo = <<[sha |-> 3, src |-> 2]>>
  /\ Len(rOut) = 2
  /\ rOut[1].from = Some(1) /\ rOut[1].to = None
  /\ rOut[2].from = Some(3) /\ rOut[2].to = Some(3)

\* C13: in the returned rows, the row of every step that advanced only the
\* from pointer is from-only and the row of every step that advanced only
\* the to pointer is to-only
C13_OneSidedStepsGiveOneSidedRows ==
  rPc = "done" =>
    \A k \in 1..Len(rSteps) :
      /\ rSteps[k].kind = "from" => (IsSome(rOut[k].from) /\ rOut[k].to = None)
      /\ rSteps[k].kind = "to" => (IsSome(rOut[k].to) /\ rOut[k].from = None)

\* C14: the row of every match step holds from[i] on its from side and to[j]
\* on its to side, also when a source occurs twice within a side
C14_MatchStepsPairTheirCommits ==
  rPc = "done" =>
    \A k \in 1..Len(rSteps) :
      rSteps[k].kind = "match" =>
        /\ rOut[k].from = Some(rFrom[rSteps[k].i + 1].sha)
        /\ rOut[k].to = Some(rTo[rSteps[k].j + 1].sha)

\* C15: for inputs that share no DiffSource the result has len(from) +
\* len(to) rows, all one-sided, the from-only rows listing the from commits
\* in from order and the to-only rows the to commits in to order
C15_DisjointReconcile ==
  (rPc = "done" /\ SharedSources = {}) =>
    /\ Len(rOut) = Len(rFrom) + Len(rTo)
    /\ \A k \in 1..Len(rOut) : OneSided(rOut[k])
    /\ FromSide(rOut) = ShasOf(rFrom)
    /\ ToSide(rOut) = ShasOf(rTo)

\* C16: for from = to the result has one row per position, every row with
\* both sides present and of equal sha, and has_changes false for every row
C16_IdenticalReconcile ==
  (rPc = "done" /\ rFrom = rTo) =>
    /\ Len(rOut) = Len(rFrom)
    /\ \A k \in 1..Len(rOut) :
         /\ TwoSided(rOut[k])
         /\ rOut[k].from = rOut[k].to
         /\ ~has_changes(rOut[k])

\* three identical commits on both sides, whose stats report changed files
C16_Witness ==
  /\ rPc = "done"
  /\ rFrom = rTo
  /\ Len(rFrom) = 3
  /\ Len(rOut) = 3
  /\ rOut[1].changed_files > 0

\* sources equal position by position
PositionwiseInputs ==
  /\ Len(rFrom) = Len(rTo)
  /\ Sources(rFrom) = Sources(rTo)

\* C17: for inputs of equal length with sources equal position by position
\* the result is the position-wise matches, and every row whose two shas
\* differ has has_changes true
C17_PositionwiseReconcile ==
  (rPc = "done" /\ PositionwiseInputs) =>
    /\ Len(rOut) = Len(rFrom)
    /\ \A k \in 1..Len(rOut) :
         /\ rOut[k].from = Some(rFrom[k].sha)
         /\ rOut[k].to = Some(rTo[k].sha)
         /\ rFrom[k].sha # rTo[k].sha => has_changes(rOut[k])

\* C18: an empty to gives the from commits in order as from-only rows with
\* has_changes true, an empty from gives the to commits in order as to-only
\* rows, and two empty inputs give no row
C18_EmptySideReconcile ==
  rPc = "done" =>
    /\ rTo = <<>> =>
         /\ Len(rOut) = Len(rFrom)
         /\ \A k \in 1..Len(rOut) :
              /\ rOut[k].from = Some(rFrom[k].sha)
              /\ rOut[k].to = None
              /\ has_changes(rOut[k])
    /\ rFrom = <<>> =>
         /\ Len(rOut) = Len(rTo)
         /\ \A k \in 1..Len(rOut) :
              /\ rOut[k].to = Some(rTo[k].sha)
              /\ rOut[k].from = None
    /\ (rFrom = <<>> /\ rTo = <<>>) => rOut = <<>>

\* C20: has_changes is true when exactly one side is present, and when both
\* are present exactly if changed_files > 0 and the shas differ; it is false
\* when no side is present
C20_HasChanges ==
  IsSome(hcResult) =>
    Unwrap(hcResult) =
      IF IsSome(hcRow.from) # IsSome(hcRow.to) THEN TRUE
      ELSE IF hcRow.from = None THEN FALSE
      ELSE hcRow.changed_files > 0 /\ hcRow.from # hcRow.to

\* has_changes answered true for a two-sided row with changed files and
\* different shas
C20_Witness ==
  /\ hcResult = Some(TRUE)
  /\ IsSome(hcRow.from) /\ IsSome(hcRow.to)
  /\ hcRow.from # hcRow.to
  /\ hcRow.changed_files > 0

\* C21: every row of a returned BranchDiff has its from side or its to side
\* present, whatever the inputs
C21_RowHasASide ==
  rPc = "done" =>
    \A k \in 1..Len(rOut) : IsSome(rOut[k].from) \/ IsSome(rOut[k].to)

\* a call returned whose inputs repeat a source within a side and across the
\* sides
C21_Witness ==
  /\ rPc = "done"
  /\ ~DistinctSources(rFrom)
  /\ ~DistinctSources(rTo)
  /\ SharedSources # {}
  /\ Len(rOut) >= 3

\* C22: a quit event the controller processes sets the screen to Exit in
\* whatever screen it arrives; once the screen is Exit the controller takes
\* nothing more from its queue, sends no request and its state does not
\* change
C22_ExitIsTerminal ==
  [][/\ (UiEventIs("Exit") /\ mainQ' = Tail(mainQ)) => screen' = ExitScreen
     /\ screen = ExitScreen =>
          /\ UNCHANGED <<appVars, submitted, handled>>
          /\ Len(mainQ') >= Len(mainQ)]_vars

\* the controller left on Exit while the response of its current job was
\* still waiting in its queue
C22_Witness ==
  /\ screen = ExitScreen
  /\ ctrlPc = "done"
  /\ \E k \in 1..Len(mainQ) :
       /\ mainQ[k].src = "Worker"
       /\ current_job = Some(mainQ[k].job_id)

\* C23: applying an Error response of the current job makes the screen the
\* Error screen with the response's message, whatever the screen was, and
\* that screen holds nothing else
C23_ErrorReplacesScreen ==
  [][CtrlAppliesResponse("Error")
       => screen' = [type |-> "Error", msg |-> Some(Head(mainQ).msg.msg)]]_vars

\* an Error response was applied after a list had been shown and a row
\* entered
C23_Witness ==
  /\ screen.type = "Error"
  /\ IsSome(entered)
  /\ commit_list # <<>>

\* C24: applying a reconciliation response of the current job makes the
\* screen a List with the response's rows and indices, and the selected index
\* is below the number of rows whenever there is a row
C24_ReconciliationGivesList ==
  [][CtrlAppliesResponse("CalculateBranchDiff")
       => LET r == Head(mainQ).msg
          IN /\ screen'.type = "List"
             /\ screen'.commits = r.commits
             /\ screen'.base_index = r.from
             /\ screen'.comparison_index = r.to
             /\ IsSome(screen'.list_state)
             /\ Unwrap(screen'.list_state) >= 0
             /\ Len(r.commits) > 0 => Unwrap(screen'.list_state) < Len(r.commits)]_vars

\* the rows of a List the filter lets through
VisibleRows(lv) ==
  IF lv.show_unchanged THEN lv.commits
  ELSE SelectSeq(lv.commits,
                 LAMBDA c : IF IsSome(c.from) /\ IsSome(c.to)
                            THEN c.changed_files > 0 /\ c.from # c.to
                            ELSE IsSome(c.from) \/ IsSome(c.to))

\* the controller processes an EnterDiff event for an existing visible row
EnterOnRow ==
  /\ UiEventIs("EnterDiff")
  /\ mainQ' = Tail(mainQ)
  /\ screen.type = "List"
  /\ Head(mainQ).ev.idx < Len(VisibleRows(screen))

\* .. and sends exactly one render request for that row's shas
RenderRequestSent ==
  LET e == VisibleRows(screen)[Head(mainQ).ev.idx + 1]
  IN /\ reqQ' = Append(reqQ, [job_id |-> Unwrap(current_job) + 1,
                              msg |-> [type |-> "RenderInterdiff",
                                       from |-> e.from, to |-> e.to,
                                       render_width |-> screen_size[1],
                                       scroll |-> 0]])
     /\ current_job' = Some(Unwrap(current_job) + 1)
     /\ screen' = screen

\* the response the controller applies answers a render job and is an Error
RenderFailureApplied ==
  /\ CtrlAppliesResponse("Error")
  /\ submitted[Head(mainQ).job_id + 1].type = "RenderInterdiff"

\* the send of the EnterDiff arm: the request is queued, or, when the worker
\* has terminated and its receiver is gone, the send fails and run() returns
\* the error through `?`
RenderSendAttempted ==
  \/ RenderRequestSent
  \/ /\ workerPc # "idle"
     /\ ctrlPc' = "aborted"
     /\ UNCHANGED <<reqQ, current_job, screen>>

C26_ListIndicesInBounds ==
  /\ [](screen.type = "List" =>
          /\ 0 <= screen.base_index
          /\ screen.base_index <= screen.comparison_index
          /\ screen.comparison_index <= screen.total_commits - 1)
  /\ [][\A r \in Range(reqQ') :
          (r \notin Range(reqQ) /\ r.msg.type = "CalculateBranchDiff")
            => /\ r.msg.from_index \in 0..(Len(commit_list') - 1)
               /\ r.msg.to_index \in 0..(Len(commit_list') - 1)]_vars

\* a List whose base was adjusted up to the comparison, after a second page
\* arrived
C26_Witness ==
  /\ screen.type = "List"
  /\ screen.base_index = screen.comparison_index
  /\ screen.total_commits > MaxPageLen
  /\ \E h \in handled : h.applied /\ submitted[h.job_id + 1].type = "CalculateBranchDiff"
                        /\ h.job_id >= 2

\* C27: a ToggleUnchanged event processed in List keeps the List and its
\* rows, flips the filter flag of the view and of the controller, selects row
\* 0 and sends no request; processed in any other screen it changes nothing
\* of the controller's state and sends no request
C27_ToggleUnchanged ==
  [][(UiEventIs("ToggleUnchanged") /\ mainQ' = Tail(mainQ)) =>
       IF screen.type = "List"
       THEN /\ screen' = [screen EXCEPT !.show_unchanged = ~screen.show_unchanged,
                                        !.list_state = Some(0)]
            /\ show_unchanged' = ~show_unchanged
            /\ screen'.show_unchanged = show_unchanged'
            /\ list_state' = Some(0)
            /\ UNCHANGED <<reqQ, submitted, current_job, ctrlPc>>
       ELSE UNCHANGED <<appVars, reqQ, submitted, ctrlPc>>]_vars

\* the filter was switched off by a toggle and the view shows every row
\* with row 0 selected
C27_Witness ==
  /\ screen.type = "List"
  /\ screen.show_unchanged /\ show_unchanged
  /\ screen.list_state = Some(0)
  /\ uiCount = MaxUiEvents
  /\ mainQ = <<>>

\* C28: after a quit the controller waits for the worker only with its
\* request sender dropped; when run() has returned, the worker has emptied
\* the request queue and returned normally from its loop; and a processed
\* quit leads to the UI thread, the worker and run() all having terminated
C28_ShutdownTerminates ==
  /\ [](ctrlPc \in {"join_worker", "done"} => ~reqTxOpen)
  /\ [](ctrlPc = "done" => (workerPc = "done" /\ reqQ = <<>> /\ uiPc = "done"))
  /\ (screen = ExitScreen ~> (ctrlPc = "done" /\ workerPc = "done" /\ uiPc = "done"))

\* the screen shows the failure of the current job: no request has been
\* assigned since that job's Error response was applied
ErrorPending ==
  /\ screen.type = "Error"
  /\ \E h \in handled : h.applied /\ current_job = Some(h.job_id)

\* C29: applying an Error response sends no request and assigns no job; and
\* while the failure of the current job is shown, a request reaches the
\* worker's queue only in a step in which the controller processes a UI event
C29_NoAutomaticRetry ==
  [][/\ CtrlAppliesResponse("Error") => UNCHANGED <<reqQ, submitted, current_job>>
     /\ (ErrorPending /\ (Len(reqQ') > Len(reqQ) \/ submitted' # submitted))
          => (mainQ # <<>> /\ Head(mainQ).src = "Ui" /\ mainQ' = Tail(mainQ))]_vars

\* a job failed, its Error was applied and the worker sits idle on an empty
\* queue
C29_Witness ==
  /\ ErrorPending
  /\ workerPc = "idle"
  /\ reqQ = <<>>
  /\ \A k \in 1..Len(mainQ) : mainQ[k].src # "Worker"
  /\ Len(responded) >= 2

\* get_commit was called on a present sha of the call and failed
ResolutionFailed ==
  \/ IsSome(rnIn.from) /\ ~rnIn.fromOk
  \/ IsSome(rnIn.to) /\ ~rnIn.toOk

\* C30: a render job in which resolving the from sha or the to sha fails
\* answers with Error, and never with a RenderInterdiff response
C30_ResolutionFailureIsError ==
  (IsSome(rnOut) /\ ResolutionFailed) => Unwrap(rnOut).type = "Error"

\* m is n + 1 in positional notation: the limbs below some position go from
\* LimbBase - 1 to 0, the limb at the position grows by one, the rest stays
U64Successor(n, m) ==
  \E k \in 1..U64Limbs :
    /\ \A i \in 1..(k - 1) : n[i] = LimbBase - 1 /\ m[i] = 0
    /\ m[k] = n[k] + 1
    /\ m[k] < LimbBase
    /\ \A i \in (k + 1)..U64Limbs : m[i] = n[i]

\* C31: JobId::next always yields a u64: 0 for 2^64 - 1 and n + 1 for any
\* other n; it maps different ids to different ids; and ids handed out fewer
\* than 2^64 dispatches apart are different
C31_JobIdNextWraps ==
  LET n == JobIdNextU64(jId)
  IN /\ n \in [1..U64Limbs -> 0..(LimbBase - 1)]
     /\ jId = U64Max => n = U64Zero
     /\ jId # U64Max => U64Successor(jId, n)
     /\ \A m \in U64Samples : JobIdNextU64(m) = n => m = jId
     /\ \A a, b \in 1..Len(jIssued) : a # b => jIssued[a] # jIssued[b]

\* the ids handed out pass from 2^64 - 1 to 0
C31_Witness ==
  /\ Len(jIssued) = MaxDispatches
  /\ \E k \in 1..(Len(jIssued) - 1) : jIssued[k] = U64Max /\ jIssued[k + 1] = U64Zero

\* the number of match steps the loop has taken
MatchSteps == Cardinality({k \in 1..Len(rSteps) : rSteps[k].kind = "match"})

\* C32: every iteration of the alignment loop leaves no pointer smaller and
\* makes at least one larger; the loop runs at most len(from) + len(to)
\* iterations; and the rows returned number len(from) + len(to) minus the
\* match steps
C32_LoopAdvancesAndTerminates ==
  /\ [][rAlign' # rAlign =>
          /\ rAlign'.i >= rAlign.i
          /\ rAlign'.j >= rAlign.j
          /\ rAlign'.i > rAlign.i \/ rAlign'.j > rAlign.j]_vars
  /\ [](Len(rSteps) <= Len(rFrom) + Len(rTo))
  /\ [](rPc = "done" =>
          /\ rAlign.i = Len(rFrom) /\ rAlign.j = Len(rTo)
          /\ Len(rSteps) = Len(rFrom) + Len(rTo) - MatchSteps
          /\ Len(rOut) = Len(rFrom) + Len(rTo) - MatchSteps)

\* a finished run over two full-length inputs with a match step and one-sided
\* steps of both kinds
C32_Witness ==
  /\ rPc = "done"
  /\ Len(rFrom) = MaxSeqLen /\ Len(rTo) = MaxSeqLen
  /\ \A t \in {"match", "from", "to"} : \E k \in 1..Len(rSteps) : rSteps[k].kind = t

\* C33: applying the first page in Loading, whatever its length, computes no
\* index below 0 and reads no entry outside the directory (the main thread
\* does not panic), and the reconciliation request it sends has indices
\* 0 <= from < to < len(commit_list)
C33_InitialIndicesInDirectory ==
  [][(CtrlAppliesResponse("LoadCommits") /\ screen.type = "Loading") =>
       /\ ctrlPc' # "panicked"
       /\ \A r \in Range(reqQ') :
            (r \notin Range(reqQ) /\ r.msg.type = "CalculateBranchDiff")
              => /\ 0 <= r.msg.from_index
                 /\ r.msg.from_index < r.msg.to_index
                 /\ r.msg.to_index < Len(commit_list')]_vars

\* the worker has taken job j from the queue and j is still the current job
TakenWhileCurrent(j) == j \in Range(received) /\ current_job = Some(j)

\* the controller has applied the response of job j
Applied(j) == \E h \in handled : h.job_id = j /\ h.applied

\* C34: a request that is the current job when the worker takes it has its
\* response applied, unless the user's input makes a later job current or
\* quits first; and a Loading screen is left for List or Error unless the
\* user quits or sends further input
C34_CurrentJobIsAnswered ==
  /\ \A j \in 0..(MaxJobs - 2) :
       TakenWhileCurrent(j)
         ~> (Applied(j) \/ current_job # Some(j) \/ screen = ExitScreen)
  /\ \A c \in 0..MaxUiEvents :
       (screen.type = "Loading" /\ uiCount = c)
         ~> (screen.type \in {"List", "Error"} \/ screen = ExitScreen \/ uiCount > c)

Abs(x) == IF x >= 0 THEN x ELSE 0 - x

\* C35: a PatchsetChange the controller processes while it holds a List has
\* each component within 1 of that List's base_index / comparison_index
C35_PatchsetChangeFromCurrentView ==
  [][(UiEventIs("PatchsetChange") /\ mainQ' = Tail(mainQ) /\ screen.type = "List") =>
       /\ Abs(Head(mainQ).ev.from - screen.base_index) <= 1
       /\ Abs(Head(mainQ).ev.to - screen.comparison_index) <= 1]_vars

\* the page the controller expects next: page 0 first, then the page its
\* token names
ExpectedPage == IF IsSome(next_page) THEN Unwrap(next_page).page ELSE 0

\* C36: a stale LoadCommits response leaves next_page and the directory
\* unchanged; an applied one carries the page the controller's token names
\* (the first page when there is no token) and, unless the main thread
\* panics, moves the token to the page's successor, so pages enter the
\* directory in order, none skipped; and the directory never holds an
\* identifier twice
C36_PagesAppliedOnceInOrder ==
  /\ [][(CtrlTakesResponse /\ current_job # Some(Head(mainQ).job_id)
         /\ Head(mainQ).msg.type = "LoadCommits")
          => UNCHANGED <<next_page, commit_list>>]_vars
  /\ [][CtrlAppliesResponse("LoadCommits") =>
          LET page == Head(mainQ).msg.page
          IN /\ \A k \in 1..Len(page.items) : page.items[k][1] = ExpectedPage
             /\ \A c \in Range(commit_list) : c[1] < ExpectedPage
             /\ Len(commit_list') = Len(commit_list) + Len(page.items)
             /\ ctrlPc' # "panicked" => next_page' = page.next]_vars
  /\ [](\A a, b \in 1..Len(commit_list) : a # b => commit_list[a] # commit_list[b])

\* two pages are in the directory after a response for the second page was
\* discarded as stale and the page was requested again
C36_Witness ==
  /\ \E c \in Range(commit_list) : c[1] = 0
  /\ \E c \in Range(commit_list) : c[1] = 1
  /\ \E h \in handled :
       /\ ~h.applied
       /\ submitted[h.job_id + 1].type = "LoadCommits"

\* the request that was sent with job id j
SentRequest(j) == (CHOOSE q \in Range(submitted) : q.job_id = j).msg

\* C37: the directory changes only while the current job is a LoadCommits
\* job, never while a reconciliation is the current job; and when a
\* reconciliation response is applied, the indices it echoes are the
\* request's, they select in the directory the two identifiers the request
\* carried, and the List's base_name / comparison_name are those identifiers
C37_DirectoryStableDuringReconciliation ==
  /\ [][commit_list' # commit_list =>
          /\ IsSome(current_job)
          /\ SentRequest(Unwrap(current_job)).type = "LoadCommits"]_vars
  /\ [][CtrlAppliesResponse("CalculateBranchDiff") =>
          LET r == Head(mainQ).msg
              q == SentRequest(Head(mainQ).job_id)
          IN /\ q.type = "CalculateBranchDiff"
             /\ r.from = q.from_index /\ r.to = q.to_index
             /\ Get(commit_list, r.from) = Some(q.from)
             /\ Get(commit_list, r.to) = Some(q.to)
             /\ UNCHANGED commit_list
             /\ screen'.base_name = Some(q.from)
             /\ screen'.comparison_name = Some(q.to)]_vars

\* a reconciliation asked for by the user was applied after a second page had
\* entered the directory
C37_Witness ==
  /\ screen.type = "List"
  /\ Len(commit_list) > MaxPageLen
  /\ IsSome(current_job)
  /\ Applied(Unwrap(current_job))
  /\ SentRequest(Unwrap(current_job)).type = "CalculateBranchDiff"
  /\ screen.base_name = Get(commit_list, screen.base_index)
  /\ screen.base_index > 0

\* C38: a Scroll event processed in a List with at least one visible row
\* leaves a selection that is the index of a visible row
C38_ListSelectionIsARow ==
  [][(UiEventIs("Scroll") /\ mainQ' = Tail(mainQ) /\ screen.type = "List"
      /\ Len(VisibleRows(screen)) > 0)
       => /\ screen'.type = "List"
          /\ IsSome(screen'.list_state)
          /\ 0 <= Unwrap(screen'.list_state)
          /\ Unwrap(screen'.list_state) < Len(VisibleRows(screen'))]_vars

\* C39: in a DiffView the scroll offset is within [0, number of diff lines];
\* an event that scrolls down does not decrease it; and Bottom sets it to the
\* number of diff lines
C39_DiffScrollWithinLines ==
  /\ [](0 <= dvView.scroll /\ dvView.scroll <= dvView.diff)
  /\ [][dvCount' > dvCount =>
          /\ Unwrap(dvEv').dir = "Down" => dvView'.scroll >= dvView.scroll
          /\ Unwrap(dvEv').kind = "Bottom" => dvView'.scroll = dvView.diff]_vars

====
